---- MODULE Spec2Model ----
(***************************************************************************)
(* Model of src/utils/estimators.py: the subplot grid layout of            *)
(* DataLogger (_calc_nrows_ncols, _get_ax, show_plots), the metrics table  *)
(* of DataLogger (add) and the target inference and metrics map of         *)
(* PycaretEstimator (__init__, _calculate_metrics, check_baseline).        *)
(*                                                                         *)
(* Python values whose type matters are records [t |-> type, v |-> value]. *)
(* Exceptions are modelled as the `err' field of an operation's outcome.   *)
(***************************************************************************)
EXTENDS Integers, Sequences, FiniteSets, TLC

VARIABLES
    \* ---- grid layout (pure functions of DataLogger) ----
    lpc,            \* position of the layout scenario: start / planned / failed / indexed
    nplots,         \* argument nplots of _calc_nrows_ncols (typed value)
    max_ncols,      \* argument max_ncols of _calc_nrows_ncols (typed value)
    plan,           \* outcome of _calc_nrows_ncols
    idx,            \* argument idx of _get_ax
    ax,             \* outcome of _get_ax
    \* ---- DataLogger and PycaretEstimator objects ----
    dataframe,      \* DataLogger._dataframe: None or a table
    render,         \* outcome of the last show_plots call
    heap,           \* the dict objects created by _calculate_metrics, by identity
    est,            \* the PycaretEstimator object
    setup_calls,    \* targets passed to mod.setup, in call order
    input_data,     \* column labels of the train and test tables given to the estimator
    op              \* the last operation executed, its arguments and the exception it raised

vars == <<lpc, nplots, max_ncols, plan, idx, ax,
          dataframe, render, heap, est, setup_calls, input_data, op>>

layoutVars == <<lpc, nplots, max_ncols, plan, idx, ax>>
objectVars == <<dataframe, render, heap, est, setup_calls, input_data, op>>

-----------------------------------------------------------------------------
(* Bounds of the model *)

MaxPlots == 100      \* largest plot count tried
MaxCols == 20        \* largest max_ncols tried
MaxBaseline == 2     \* number of check_baseline calls explored

-----------------------------------------------------------------------------
(* Python values *)

None == [t |-> "NoneType", v |-> 0]
PyInt(n) == [t |-> "int", v |-> n]
PyTrue == [t |-> "bool", v |-> 1]
PyFalse == [t |-> "bool", v |-> 0]

\* arguments that are not instances of int: the float 2.0, a string, None
NonIntArgs == {[t |-> "float", v |-> 2], [t |-> "str", v |-> 0], None}

\* isinstance(x, int): bool is a subclass of int in Python
IsInstanceInt(x) == x.t \in {"int", "bool"}

PlotArgs == {PyInt(n) : n \in -1..MaxPlots} \cup {PyTrue, PyFalse} \cup NonIntArgs
ColArgs == {PyInt(n) : n \in -1..MaxCols} \cup {PyTrue, PyFalse} \cup NonIntArgs
IdxRange == -(MaxPlots + MaxCols)..(MaxPlots + MaxCols)

-----------------------------------------------------------------------------
(* DataLogger._calc_nrows_ncols *)

NoPlan == [err |-> "none", nrows |-> 0, ncols |-> 0, called |-> FALSE]
PlanError(e) == [err |-> e, nrows |-> 0, ncols |-> 0, called |-> TRUE]

\* the guard of lines 271-275: "none" when the arguments are accepted
ValidateArgsNoSignCheck(np, mc) ==
    IF IsInstanceInt(np) /\ IsInstanceInt(mc) THEN "none" ELSE "TypeError"

ValidateArgs(np, mc) ==
    IF IsInstanceInt(np) /\ IsInstanceInt(mc)
    THEN IF np.v <= 0 \/ mc.v <= 0 THEN "ValueError" ELSE "none"
    ELSE "TypeError"

\* lines 277-280
ChooseNcols(np, mc) == IF np < mc THEN np ELSE mc

\* Python's // and % on integers (floor division, remainder with the sign of the divisor), b # 0
PyFloorDiv(a, b) == IF b > 0 THEN a \div b ELSE (-a) \div (-b)
PyMod(a, b) == a - b * PyFloorDiv(a, b)

\* line 282: nplots // ncols + int(nplots % ncols != 0)
ChooseNrowsFloor(np, nc) == PyFloorDiv(np, nc)

ChooseNrows(np, nc) == PyFloorDiv(np, nc) + (IF PyMod(np, nc) # 0 THEN 1 ELSE 0)

\* the whole method; a zero divisor on line 282 raises ZeroDivisionError
CalcNrowsNcols(np, mc) ==
    LET e == ValidateArgs(np, mc) IN
    IF e # "none" THEN PlanError(e)
    ELSE LET nc == ChooseNcols(np.v, mc.v) IN
         IF nc = 0 THEN PlanError("ZeroDivisionError")
         ELSE [err |-> "none", nrows |-> ChooseNrows(np.v, nc), ncols |-> nc, called |-> TRUE]

-----------------------------------------------------------------------------
(* The axes returned by plt.subplots(nrows, ncols) (squeeze=True), line 326, *)
(* and numpy's indexing of them.  Every Axes object is named by the grid     *)
(* cell <<row, column>> it occupies.                                         *)

Subplots(nr, nc) ==
    [kind |-> IF nr = 1 /\ nc = 1 THEN "single"
              ELSE IF nr = 1 \/ nc = 1 THEN "1d" ELSE "2d",
     nrows |-> nr, ncols |-> nc]

NoAx == [err |-> "none", obj |-> "none", cell |-> <<-1, -1>>]
AxError(e) == [err |-> e, obj |-> "none", cell |-> <<-1, -1>>]
AxAt(r, c) == [err |-> "none", obj |-> "Axes", cell |-> <<r, c>>]

\* numpy: an index k on an axis of length n is valid for -n <= k < n, negative ones wrap
InAxis(k, n) == -n <= k /\ k < n
Wrap(k, n) == IF k < 0 THEN k + n ELSE k

\* axes[r, c]
Index2D(axes, r, c) ==
    IF axes.kind = "single" THEN AxError("TypeError")
    ELSE IF axes.kind = "1d" THEN AxError("IndexError")
    ELSE IF InAxis(r, axes.nrows) /\ InAxis(c, axes.ncols)
         THEN AxAt(Wrap(r, axes.nrows), Wrap(c, axes.ncols))
         ELSE AxError("IndexError")

\* axes[k]
Index1D(axes, k) ==
    IF axes.kind = "single" THEN AxError("TypeError")
    ELSE IF axes.kind = "2d"
         THEN IF InAxis(k, axes.nrows)
              THEN [err |-> "none", obj |-> "ndarray", cell |-> <<Wrap(k, axes.nrows), -1>>]
              ELSE AxError("IndexError")
    ELSE LET n == axes.nrows * axes.ncols IN
         IF InAxis(k, n)
         THEN IF axes.nrows = 1 THEN AxAt(0, Wrap(k, n)) ELSE AxAt(Wrap(k, n), 0)
         ELSE AxError("IndexError")

\* axes itself
Whole(axes) ==
    IF axes.kind = "single" THEN AxAt(0, 0)
    ELSE [err |-> "none", obj |-> "ndarray", cell |-> <<-1, -1>>]

(* DataLogger._get_ax *)
GetAxColumnMajor(axes, i, nr, nc) ==
    IF nr > 1 /\ nc > 1 THEN Index2D(axes, PyMod(i, nr), PyFloorDiv(i, nr))
    ELSE IF nr * nc = 1 THEN Whole(axes)
    ELSE Index1D(axes, i)

GetAxDivByRows(axes, i, nr, nc) ==
    IF nr > 1 /\ nc > 1 THEN Index2D(axes, PyFloorDiv(i, nr), PyMod(i, nc))
    ELSE IF nr * nc = 1 THEN Whole(axes)
    ELSE Index1D(axes, i)

GetAxClamped(axes, i, nr, nc) ==
    IF nr > 1 /\ nc > 1
    THEN Index2D(axes, PyFloorDiv(i, nc), PyMod(i, nc))
    ELSE IF nr * nc = 1 THEN Whole(axes)
    ELSE Index1D(axes, IF i >= nr * nc THEN nr * nc - 1 ELSE i)

GetAx(axes, i, nr, nc) ==
    IF nr > 1 /\ nc > 1
    THEN Index2D(axes, PyFloorDiv(i, nc), PyMod(i, nc))
    ELSE IF nr * nc = 1 THEN Whole(axes)
    ELSE Index1D(axes, i)

-----------------------------------------------------------------------------
(* Grid layout scenario: _calc_nrows_ncols on arbitrary arguments, then     *)
(* _get_ax on the axes of that plan with an arbitrary index.                *)

CalcNrowsNcolsCall ==
    /\ lpc = "start"
    /\ plan' = CalcNrowsNcols(nplots, max_ncols)
    /\ lpc' = IF plan'.err = "none" THEN "planned" ELSE "failed"
    /\ UNCHANGED <<nplots, max_ncols, idx, ax>>
    /\ UNCHANGED objectVars

GetAxCall ==
    /\ lpc = "planned"
    /\ \E i \in IdxRange :
          /\ idx' = i
          /\ ax' = GetAx(Subplots(plan.nrows, plan.ncols), i, plan.nrows, plan.ncols)
    /\ lpc' = "indexed"
    /\ UNCHANGED <<nplots, max_ncols, plan>>
    /\ UNCHANGED objectVars

-----------------------------------------------------------------------------
(* Python dicts of metrics: insertion-ordered sequences of <<key, value>>   *)
(* pairs with distinct keys.  Metric values are opaque numbers.             *)

MetricKeys == {"Accuracy", "F1"}
Values == {"0.8", "0.9"}
NaN == "NaN"
Names == {"modelA", "modelB"}

DistinctKeys(d) == \A i, j \in 1..Len(d) : i # j => d[i][1] # d[j][1]
Dicts ==
    {d \in UNION {[1..n -> MetricKeys \X Values] : n \in 0..Cardinality(MetricKeys)} :
        DistinctKeys(d)}

\* list(d.keys())
Keys(d) == [i \in 1..Len(d) |-> d[i][1]]
HasKey(d, k) == \E i \in 1..Len(d) : d[i][1] = k
Get(d, k) == d[CHOOSE i \in 1..Len(d) : d[i][1] = k][2]
Range(q) == {q[i] : i \in 1..Len(q)}
PosOf(q, x) == CHOOSE i \in 1..Len(q) : q[i] = x

-----------------------------------------------------------------------------
(* pandas.DataFrame as used by DataLogger: ordered column labels, ordered   *)
(* row labels and one row of cells per row label.                           *)

NoFrame == [isNone |-> TRUE, columns |-> <<>>, index |-> <<>>, data |-> <<>>]

\* pd.DataFrame(columns=keys)
NewFrame(keys) == [isNone |-> FALSE, columns |-> keys, index |-> <<>>, data |-> <<>>]

\* pandas aligns a dict assigned to a row on the column labels: a column the
\* dict lacks becomes NaN, a key that is no column is dropped
AlignRow(cols, d) ==
    [j \in 1..Len(cols) |-> IF HasKey(d, cols[j]) THEN Get(d, cols[j]) ELSE NaN]

\* df.loc[name] = d : overwrite the row labelled name, or append a new row
\* (setting with enlargement, which pandas refuses on a frame without columns)
LocSetMoveToEnd(df, name, d) ==
    IF Len(df.columns) = 0 /\ name \notin Range(df.index)
    THEN [df |-> df, err |-> "ValueError"]
    ELSE LET keep == SelectSeq(df.index, LAMBDA n : n # name)
             rowOf(n) == df.data[PosOf(df.index, n)]
         IN [df |-> [df EXCEPT !.index = Append(keep, name),
                               !.data = Append([i \in 1..Len(keep) |-> rowOf(keep[i])],
                                               AlignRow(df.columns, d))],
             err |-> "none"]

LocSet(df, name, d) ==
    IF name \in Range(df.index)
    THEN [df |-> [df EXCEPT !.data[PosOf(df.index, name)] = AlignRow(df.columns, d)],
          err |-> "none"]
    ELSE IF Len(df.columns) = 0
    THEN [df |-> df, err |-> "ValueError"]
    ELSE [df |-> [df EXCEPT !.index = Append(df.index, name),
                            !.data = Append(df.data, AlignRow(df.columns, d))],
          err |-> "none"]

(* DataLogger.add *)
FrameForAddUnionColumns(df, metrics) ==
    IF df.isNone THEN NewFrame(Keys(metrics))
    ELSE LET extra == SelectSeq(Keys(metrics), LAMBDA k : k \notin Range(df.columns))
         IN [df EXCEPT !.columns = df.columns \o extra,
                       !.data = [i \in 1..Len(df.data) |->
                                    df.data[i] \o [j \in 1..Len(extra) |-> NaN]]]

\* lines 249-250
FrameForAdd(df, metrics) == IF df.isNone THEN NewFrame(Keys(metrics)) ELSE df

\* the whole method: outcome [df, err]
AddOutcome(df, metrics, name) == LocSet(FrameForAdd(df, metrics), name, metrics)

-----------------------------------------------------------------------------
(* DataLogger.show_plots *)

NoRender == [called |-> FALSE, err |-> "none", context_set |-> FALSE, planned |-> FALSE,
             nrows |-> 0, ncols |-> 0, panels |-> <<>>]

\* lines 327-331: draw column i, i+1, ... of n onto the axes _get_ax returns;
\* the outcome is [err, panels]
RECURSIVE DrawFrom(_, _, _, _, _, _)
DrawFrom(axes, i, n, nr, nc, done) ==
    IF i >= n THEN [err |-> "none", panels |-> done]
    ELSE LET a == GetAx(axes, i, nr, nc) IN
         IF a.err # "none" THEN [err |-> a.err, panels |-> done]
         ELSE IF a.obj # "Axes" THEN [err |-> "AttributeError", panels |-> done]
         ELSE DrawFrom(axes, i + 1, n, nr, nc, Append(done, a.cell))

\* line 325: self._dataframe.columns of None raises AttributeError
ColumnCount(df) ==
    IF df.isNone THEN [err |-> "AttributeError", n |-> 0]
    ELSE [err |-> "none", n |-> Len(df.columns)]

ShowPlotsOutcomeBlankFigure(df, mc) ==
    LET cnt == ColumnCount(df)
        blank == [called |-> TRUE, err |-> "none", context_set |-> TRUE, planned |-> TRUE,
                  nrows |-> 1, ncols |-> 1, panels |-> <<>>]
    IN IF cnt.err # "none" THEN blank
       ELSE LET p == CalcNrowsNcols(PyInt(cnt.n), mc) IN
            IF p.err # "none" THEN blank
            ELSE LET d == DrawFrom(Subplots(p.nrows, p.ncols), 0, cnt.n, p.nrows, p.ncols, <<>>)
                 IN [called |-> TRUE, err |-> d.err, context_set |-> TRUE, planned |-> TRUE,
                     nrows |-> p.nrows, ncols |-> p.ncols, panels |-> d.panels]

ShowPlotsOutcome(df, mc) ==
    LET cnt == ColumnCount(df)
        failed(e) == [called |-> TRUE, err |-> e, context_set |-> TRUE, planned |-> FALSE,
                      nrows |-> 0, ncols |-> 0, panels |-> <<>>]
    IN IF cnt.err # "none" THEN failed(cnt.err)
       ELSE LET p == CalcNrowsNcols(PyInt(cnt.n), mc) IN
            IF p.err # "none" THEN failed(p.err)
            ELSE LET d == DrawFrom(Subplots(p.nrows, p.ncols), 0, cnt.n, p.nrows, p.ncols, <<>>)
                 IN [called |-> TRUE, err |-> d.err, context_set |-> TRUE, planned |-> TRUE,
                     nrows |-> p.nrows, ncols |-> p.ncols, panels |-> d.panels]

\* max_ncols values tried by show_plots (3 is the default)
ShowArgs == {PyInt(n) : n \in 0..3} \cup {[t |-> "float", v |-> 2]}

-----------------------------------------------------------------------------
(* PycaretEstimator *)

AllColumns == {"PassengerId", "Survived", "Pclass", "Age"}
TitanicTrain == {"PassengerId", "Survived", "Pclass"}
TitanicTest == {"PassengerId", "Pclass"}

\* display names of mod.get_metrics(), in table order
MetricsTable == <<"Accuracy">>

NoEstimator == [constructed |-> FALSE, err |-> "none", target |-> "", metrics |-> 0]

\* line 136: set(train.columns) - set(test.columns)
TargetCandidatesTrainOnly(train, test) == train

TargetCandidates(train, test) == train \ test

\* __init__: list(...)[0] of a set is any of its elements, IndexError when it is
\* empty; the outcomes are [est, setup], setup being the targets given to mod.setup
EstimatorInitOutcomes(train, test) ==
    LET cands == TargetCandidates(train, test) IN
    IF cands = {}
    THEN {[est |-> [NoEstimator EXCEPT !.err = "IndexError"], setup |-> <<>>]}
    ELSE {[est |-> [constructed |-> TRUE, err |-> "none", target |-> t, metrics |-> 0],
           setup |-> <<t>>] : t \in cands}

\* _calculate_metrics, lines 156-164: self._metrics is bound to a new dict, then
\* filled with one entry per row of the metrics table, in table order.  The
\* dict holds fewer entries than the table when an external call (get_metrics,
\* predict_model, check_metric) raises on the way.  The values are check_metric's.
MetricsDicts ==
    {d \in Dicts : \E k \in 0..Len(MetricsTable) : Keys(d) = SubSeq(MetricsTable, 1, k)}

CalculateMetricsInPlace(hp, e, d) ==
    IF e.metrics = 0
    THEN [heap |-> Append(hp, d), est |-> [e EXCEPT !.metrics = Len(hp) + 1]]
    ELSE [heap |-> [hp EXCEPT ![e.metrics] = d], est |-> e]

CalculateMetrics(hp, e, d) ==
    [heap |-> Append(hp, d), est |-> [e EXCEPT !.metrics = Len(hp) + 1]]

NoOp == [kind |-> "none", name |-> "", metrics |-> <<>>, err |-> "none"]

-----------------------------------------------------------------------------
(* Scenario of the objects: a DataLogger and a PycaretEstimator built on    *)
(* Titanic-shaped tables, used in any order.                                *)

LayoutIdle ==
    /\ lpc = "idle"
    /\ nplots = None
    /\ max_ncols = None
    /\ plan = NoPlan
    /\ idx = 0
    /\ ax = NoAx

ObjectsIdle ==
    /\ dataframe = NoFrame
    /\ render = NoRender
    /\ heap = <<>>
    /\ est = NoEstimator
    /\ setup_calls = <<>>
    /\ input_data = [train |-> {}, test |-> {}]
    /\ op = NoOp

\* DataLogger() and PycaretEstimator(mod, input_data) have been constructed
Init ==
    /\ LayoutIdle
    /\ dataframe = NoFrame
    /\ render = NoRender
    /\ heap = <<>>
    /\ input_data = [train |-> TitanicTrain, test |-> TitanicTest]
    /\ \E o \in EstimatorInitOutcomes(TitanicTrain, TitanicTest) :
          /\ est = o.est
          /\ setup_calls = o.setup
    /\ op = NoOp

\* logger.add(metrics, name) with a dict of the caller
Add ==
    /\ \E metrics \in Dicts, name \in Names :
          LET r == AddOutcome(dataframe, metrics, name) IN
          /\ dataframe' = r.df
          /\ op' = [kind |-> "add", name |-> name, metrics |-> metrics, err |-> r.err]
    /\ render' = NoRender
    /\ UNCHANGED <<heap, est, setup_calls, input_data>>
    /\ UNCHANGED layoutVars

\* logger.add(estimator.metrics, name)
AddEstimatorMetrics ==
    /\ est.metrics # 0
    /\ \E name \in Names :
          LET r == AddOutcome(dataframe, heap[est.metrics], name) IN
          /\ dataframe' = r.df
          /\ op' = [kind |-> "add", name |-> name, metrics |-> heap[est.metrics], err |-> r.err]
    /\ render' = NoRender
    /\ UNCHANGED <<heap, est, setup_calls, input_data>>
    /\ UNCHANGED layoutVars

\* estimator.check_baseline(metric): compare_models, tune_model or
\* finalize_model raises before _calculate_metrics is reached
CheckBaselineSearchFails ==
    /\ est.constructed
    /\ Len(heap) < MaxBaseline
    /\ op' = [kind |-> "check_baseline", name |-> "", metrics |-> <<>>, err |-> "ExternalError"]
    /\ render' = NoRender
    /\ UNCHANGED <<dataframe, heap, est, setup_calls, input_data>>
    /\ UNCHANGED layoutVars

\* estimator.check_baseline(metric) reaching _calculate_metrics
CheckBaseline ==
    /\ est.constructed
    /\ Len(heap) < MaxBaseline
    /\ \E d \in MetricsDicts :
          LET r == CalculateMetrics(heap, est, d) IN
          /\ heap' = r.heap
          /\ est' = r.est
          /\ \E e \in {"none", "ExternalError"} :
                /\ Len(d) < Len(MetricsTable) => e = "ExternalError"
                /\ op' = [kind |-> "check_baseline", name |-> "", metrics |-> <<>>, err |-> e]
    /\ render' = NoRender
    /\ UNCHANGED <<dataframe, setup_calls, input_data>>
    /\ UNCHANGED layoutVars

\* logger.show_plots(max_ncols)
ShowPlots ==
    /\ \E mc \in ShowArgs :
          /\ render' = ShowPlotsOutcome(dataframe, mc)
          /\ op' = [kind |-> "show_plots", name |-> "", metrics |-> <<>>, err |-> render'.err]
    /\ UNCHANGED <<dataframe, heap, est, setup_calls, input_data>>
    /\ UNCHANGED layoutVars

Next == Add \/ AddEstimatorMetrics \/ CheckBaselineSearchFails \/ CheckBaseline \/ ShowPlots

Spec == Init /\ [][Next]_vars

-----------------------------------------------------------------------------
(* Scenario of the grid layout *)

LayoutInit ==
    /\ lpc = "start"
    /\ nplots \in PlotArgs
    /\ max_ncols \in ColArgs
    /\ plan = NoPlan
    /\ idx = 0
    /\ ax = NoAx
    /\ ObjectsIdle

LayoutNext == CalcNrowsNcolsCall \/ GetAxCall

SpecLayout == LayoutInit /\ [][LayoutNext]_vars

-----------------------------------------------------------------------------
(* Scenario of the estimator's construction on arbitrary tables *)

EstimatorInit ==
    /\ LayoutIdle
    /\ dataframe = NoFrame
    /\ render = NoRender
    /\ heap = <<>>
    /\ est = NoEstimator
    /\ setup_calls = <<>>
    /\ input_data \in [train : SUBSET AllColumns, test : SUBSET AllColumns]
    /\ op = NoOp

\* PycaretEstimator(mod, input_data)
Construct ==
    /\ op.kind = "none"
    /\ \E o \in EstimatorInitOutcomes(input_data.train, input_data.test) :
          /\ est' = o.est
          /\ setup_calls' = o.setup
          /\ op' = [kind |-> "init", name |-> "", metrics |-> <<>>, err |-> o.est.err]
    /\ UNCHANGED <<dataframe, render, heap, input_data>>
    /\ UNCHANGED layoutVars

EstimatorNext == Construct

SpecEstimator == EstimatorInit /\ [][EstimatorNext]_vars

-----------------------------------------------------------------------------
(* Properties of the grid layout, checked under SpecLayout *)

\* the arguments are integers (Python counts bool as one) and positive
ValidArgs == /\ nplots.t \in {"int", "bool"} /\ max_ncols.t \in {"int", "bool"}
             /\ nplots.v > 0 /\ max_ncols.v > 0
PlotIndices == 0..(nplots.v - 1)
InGrid(cell) == /\ cell[1] \in 0..(plan.nrows - 1)
                /\ cell[2] \in 0..(plan.ncols - 1)
AxOf(i) == GetAx(Subplots(plan.nrows, plan.ncols), i, plan.nrows, plan.ncols)

\* C1: for positive integer arguments _calc_nrows_ncols returns a plan with
\* ncols = min(nplots, max_ncols) and nrows = ceil(nplots / ncols), hence
\* nrows * ncols >= nplots, ncols <= max_ncols and ncols <= nplots.
C1_PlanShape ==
    (lpc # "start" /\ ValidArgs) =>
        /\ lpc # "failed"
        /\ plan.err = "none"
        /\ plan.ncols \in {nplots.v, max_ncols.v}
        /\ plan.ncols <= nplots.v
        /\ plan.ncols <= max_ncols.v
        /\ plan.nrows * plan.ncols >= nplots.v
        /\ (plan.nrows - 1) * plan.ncols < nplots.v

C1_Witness ==
    /\ lpc = "planned"
    /\ nplots = PyInt(7) /\ max_ncols = PyInt(3)
    /\ plan.nrows = 3 /\ plan.ncols = 3

\* C2: on a valid plan every index in [0, nplots) gets an Axes whose cell lies
\* in [0, nrows) x [0, ncols), and distinct indices get distinct cells: the
\* cells addressed are exactly nplots many.
C2_CellsInGridAndDistinct ==
    /\ (lpc = "planned" /\ ValidArgs) =>
          /\ \A i \in PlotIndices :
                /\ AxOf(i).err = "none"
                /\ AxOf(i).obj = "Axes"
                /\ InGrid(AxOf(i).cell)
          /\ Cardinality({AxOf(i).cell : i \in PlotIndices}) = nplots.v
    /\ (lpc = "indexed" /\ idx \in PlotIndices) =>
          /\ ax.err = "none"
          /\ ax.obj = "Axes"
          /\ InGrid(ax.cell)

C2_Witness ==
    /\ lpc = "indexed"
    /\ nplots = PyInt(10) /\ max_ncols = PyInt(4)
    /\ idx = 9
    /\ ax.cell = <<2, 1>>

\* C3: every index in [0, nplots) gets the index-th cell in row-major order:
\* (idx // ncols, idx % ncols) on a grid with several rows and columns,
\* (0, idx) on one row, (idx, 0) on one column, (0, 0) on the 1x1 grid.
C3_RowMajor ==
    (lpc = "indexed" /\ idx \in PlotIndices) =>
        /\ ax.err = "none"
        /\ ax.cell = <<idx \div plan.ncols, idx % plan.ncols>>
        /\ (plan.nrows = 1) => ax.cell = <<0, idx>>
        /\ (plan.ncols = 1) => ax.cell = <<idx, 0>>
        /\ (plan.nrows = 1 /\ plan.ncols = 1) => ax.cell = <<0, 0>>

C3_Witness ==
    /\ lpc = "indexed"
    /\ nplots = PyInt(7) /\ max_ncols = PyInt(3)
    /\ idx = 6
    /\ ax.cell = <<2, 0>>

\* C6: _calc_nrows_ncols raises ValueError or TypeError and returns no plan
\* whenever an argument is not an integer or is not positive, and the check
\* precedes the arithmetic: no division by a zero column count happens.
C6_InvalidArgumentsRejected ==
    /\ plan.err # "ZeroDivisionError"
    /\ (lpc # "start" /\ ~ValidArgs) =>
          /\ lpc = "failed"
          /\ plan.err \in {"ValueError", "TypeError"}
          /\ plan.nrows = 0 /\ plan.ncols = 0
    /\ (lpc = "indexed") => plan.err = "none"

C6_Witness ==
    /\ lpc = "failed"
    /\ nplots = PyInt(0) /\ max_ncols = PyInt(3)
    /\ plan.err = "ValueError"

\* C7 as claimed: _get_ax raises IndexError and returns no Axes for every index
\* outside [0, nplots).
C7_OutOfRangeAlwaysFails ==
    (lpc = "indexed" /\ idx \notin PlotIndices) =>
        /\ ax.err = "IndexError"
        /\ ax.obj = "none"

\* C7 amended: _get_ax raises IndexError, and returns no Axes, exactly when the
\* grid is not 1x1 and the index lies outside [-nrows*ncols, nrows*ncols); an
\* index in [nplots, nrows*ncols) gets the unused trailing cell, a negative
\* index down to -nrows*ncols wraps round, and the 1x1 grid returns its single
\* Axes for any index.
C7_FailsOutsideTheGridOnly ==
    (lpc = "indexed") =>
        LET size == plan.nrows * plan.ncols
            outside == idx >= size \/ idx < -size
        IN /\ ax.err \in {"none", "IndexError"}
           /\ ax.err = "IndexError" <=> (size # 1 /\ outside)
           /\ ax.err = "IndexError" => ax.obj = "none"
           /\ ax.err = "none" =>
                 /\ ax.obj = "Axes"
                 /\ InGrid(ax.cell)
                 /\ size = 1 => ax.cell = <<0, 0>>
                 /\ (size # 1 /\ idx >= 0) => ax.cell = <<idx \div plan.ncols, idx % plan.ncols>>

C7_Witness ==
    /\ lpc = "indexed"
    /\ nplots = PyInt(5) /\ max_ncols = PyInt(10)
    /\ idx = 5
    /\ ax.err = "IndexError"

-----------------------------------------------------------------------------
(* Properties of the metrics table, checked under Spec *)

NoDuplicates(q) == \A i, j \in 1..Len(q) : i # j => q[i] # q[j]
KeySet(d) == {d[i][1] : i \in 1..Len(d)}
\* the value a dict gives for a column label, NaN when it has none
ValueFor(d, c) == IF c \in KeySet(d) THEN Get(d, c) ELSE NaN
AddSucceeded == op'.kind = "add" /\ op'.err = "none"

\* C4: the rows keep the order of each name's first insertion and every name
\* occurs once: a successful add of a new name appends one row, a successful add
\* of an existing name changes that row only, in place, to the values just
\* given, and nothing else adds, removes, moves or changes a row.
C4_RowsInInsertionOrder ==
    [][LET old == dataframe.index
           new == dataframe'.index
       IN /\ NoDuplicates(new)
          /\ Len(dataframe'.data) = Len(new)
          /\ IF AddSucceeded /\ op'.name \notin Range(old)
             THEN new = Append(old, op'.name)
             ELSE new = old
          /\ \A i \in 1..Len(old) :
                (AddSucceeded /\ op'.name = old[i]) \/ dataframe'.data[i] = dataframe.data[i]
          /\ AddSucceeded =>
                LET row == dataframe'.data[PosOf(new, op'.name)]
                    cols == dataframe'.columns
                IN /\ Len(row) = Len(cols)
                   /\ \A j \in 1..Len(cols) : row[j] = ValueFor(op'.metrics, cols[j])
      ]_vars

C4_Witness ==
    /\ op.kind = "add" /\ op.name = "modelA" /\ op.err = "none"
    /\ op.metrics = <<<<"Accuracy", "0.9">>, <<"F1", "0.8">>>>
    /\ dataframe.columns = <<"Accuracy", "F1">>
    /\ dataframe.index = <<"modelA", "modelB">>
    /\ dataframe.data = <<<<"0.9", "0.8">>, <<"0.8", "0.8">>>>

\* C5: the first add fixes the columns to the keys of its dict, and no later
\* call changes them, whatever keys its dict has.
C5_ColumnsFixedByFirstAdd ==
    [][/\ dataframe.isNone =>
             IF op'.kind = "add"
             THEN /\ ~dataframe'.isNone
                  /\ dataframe'.columns = Keys(op'.metrics)
                  /\ Range(dataframe'.columns) = KeySet(op'.metrics)
             ELSE dataframe'.isNone
       /\ ~dataframe.isNone =>
             /\ ~dataframe'.isNone
             /\ dataframe'.columns = dataframe.columns
      ]_vars

C5_Witness ==
    /\ op.kind = "add" /\ op.err = "none"
    /\ KeySet(op.metrics) = {"Accuracy", "F1"}
    /\ dataframe.columns = <<"F1">>
    /\ Len(dataframe.index) = 2

\* C8: show_plots on a log without entries raises (AttributeError when add was
\* never called, ValueError or TypeError from _calc_nrows_ncols when the only
\* adds failed) instead of proceeding:
\* no grid is planned and no panel is drawn.
C8_EmptyLogNotRendered ==
    (op.kind = "show_plots" /\ (dataframe.isNone \/ Len(dataframe.index) = 0)) =>
        /\ render.called
        /\ IF dataframe.isNone THEN render.err = "AttributeError"
           ELSE render.err \in {"ValueError", "TypeError"}
        /\ ~render.planned
        /\ render.nrows = 0 /\ render.ncols = 0
        /\ render.panels = <<>>

C8_Witness ==
    /\ op.kind = "show_plots"
    /\ dataframe.isNone
    /\ render.called
    /\ render.err = "AttributeError"
    /\ ~render.planned

\* C10: a row of the log changes only by an add of its own name, and
\* _calculate_metrics binds the estimator's metrics to a new dict with the
\* latest values, leaving every dict it created before as it was.
C10_LoggedRowsAndOldMapsKept ==
    [][/\ \A i \in 1..Len(dataframe.index) :
             \/ op'.kind = "add" /\ op'.name = dataframe.index[i]
             \/ /\ i <= Len(dataframe'.index)
                /\ dataframe'.index[i] = dataframe.index[i]
                /\ dataframe'.data[i] = dataframe.data[i]
       /\ Len(heap') >= Len(heap)
       /\ \A id \in 1..Len(heap) : heap'[id] = heap[id]
       /\ op'.kind = "check_baseline" =>
             /\ dataframe' = dataframe
             /\ est'.metrics # est.metrics =>
                   /\ est'.metrics \notin 1..Len(heap)
                   /\ est'.metrics \in 1..Len(heap')
       /\ op'.kind # "check_baseline" => (est' = est /\ heap' = heap)
      ]_vars

C10_Witness ==
    /\ op.kind = "check_baseline"
    /\ heap = <<<<<<"Accuracy", "0.8">>>>, <<<<"Accuracy", "0.9">>>>>>
    /\ est.metrics = 2
    /\ dataframe.columns = <<"Accuracy">>
    /\ dataframe.index = <<"modelA">>
    /\ dataframe.data = <<<<"0.8">>>>

-----------------------------------------------------------------------------
(* Property of the estimator's construction, checked under SpecEstimator *)

\* C9: the target given to mod.setup is a column of the train table that the
\* test table lacks; when there is none the constructor raises IndexError and
\* setup is not called.
C9_TargetInTrainNotInTest ==
    /\ \A i \in 1..Len(setup_calls) :
          /\ setup_calls[i] \in input_data.train
          /\ setup_calls[i] \notin input_data.test
    /\ est.constructed =>
          /\ est.target \in input_data.train
          /\ est.target \notin input_data.test
          /\ setup_calls = <<est.target>>
    /\ op.kind = "init" =>
          IF input_data.train \subseteq input_data.test
          THEN ~est.constructed /\ est.err = "IndexError" /\ setup_calls = <<>>
          ELSE est.constructed

C9_Witness ==
    /\ op.kind = "init"
    /\ input_data = [train |-> {"PassengerId", "Survived", "Age"}, test |-> {"PassengerId", "Age"}]
    /\ est.constructed
    /\ est.target = "Survived"
    /\ setup_calls = <<"Survived">>

====
